---- MODULE Spec2Model ----
(***************************************************************************)
(* lang-helper: suggestion reconciliation (background.js) and the content  *)
(* script's analysis session, span store, correction handler and overlay   *)
(* placement (content.js).                                                 *)
(*                                                                         *)
(* Strings are sequences of one-character strings, indexed from 1; the     *)
(* JavaScript offsets of the source are 0-based, so text.substring(a, b)   *)
(* is SubSeq(text, a + 1, b).                                              *)
(***************************************************************************)
EXTENDS Integers, Sequences, FiniteSets, TLC

VARIABLES
    \* ---- reconciliation run (background.js) ----
    rText,              \* request.text of the run
    rPayload,           \* what the oracle replied (data.content[0].text), or NULL
    rOut,               \* the response sent back, [suggestions], or NULL
    \* ---- content script (content.js) ----
    currentSettings,    \* content.js:3    [enabled, apiKey]
    analysisTimeout,    \* content.js:9    the debounce timer last created, or NULL
    timers,             \* pending debounce timers (host timer queue)
    scanTimers,         \* elements whose 1 s initial-scan timer is pending
    activeElement,      \* content.js:10
    tooltip,            \* content.js:11   suggestionOverlay: what it shows, or NULL
    currentAnalysis,    \* content.js:12
    requests,           \* sendMessage calls awaiting their response, oldest first
    elementSuggestions, \* content.js:13   element -> [text, suggestions] or NULL
    activeOverlays,     \* content.js:14   element -> overlay or NULL
    docOverlay,         \* the node with id lang-helper-content-overlay in the document, or NULL
    highlightLayer,     \* element -> the spans of its wrapper's .lang-helper-highlights
    dataSuggestions,    \* element -> its data-suggestions attribute [json], or NULL
    kind,               \* element -> "TEXTAREA" | "INPUT" | "EDITABLE"
    elText,             \* element -> the text the host element holds now
    corrections,        \* Replace clicks so far (capped by MaxCorrections)
    last,               \* the handler that ran last, with what it was given
    listeners,          \* scroll/resize listener pairs subscribed on window
    \* ---- overlay placement (content.js, updatePosition) ----
    geometry,           \* what getBoundingClientRect and window report now, or NULL
    overlayStyle,       \* the overlay's display, box and clip-path, or NULL
    detached,           \* elements that are not in the document
    collapsed,          \* elements whose getBoundingClientRect has no area
    toolbars,           \* the rectangles of the page's [role="toolbar"] elements
    markRects,          \* the rectangle of each <mark> of the overlay
    markVisibility,     \* style.visibility of each <mark>
    \* ---- overlay content (content.js, createPositionedOverlay) ----
    overlayText,        \* the text createPositionedOverlay was given, or NULL
    overlaySuggestions, \* the suggestions it was given
    overlayHtml,        \* overlay.innerHTML as [runs], or NULL
    \* ---- monitoring setup (content.js, setupTextMonitoring) ----
    monitored,          \* elements that carry data-lang-helper-monitored
    handlers,           \* element -> the events the script's listeners are on
    scanCount           \* element -> setTimeout calls of line 53 made for it

rvars == <<rText, rPayload, rOut>>
cvars == <<currentSettings, analysisTimeout, timers, scanTimers, activeElement,
           tooltip, currentAnalysis, requests, elementSuggestions, activeOverlays,
           docOverlay, highlightLayer, dataSuggestions, kind, elText, corrections, last,
           listeners>>
plan == <<overlayText, overlaySuggestions, overlayHtml>>
monitor == <<monitored, handlers, scanCount>>
pvars == <<geometry, overlayStyle, detached, collapsed, toolbars, markRects,
           markVisibility, plan, monitor>>
vars == <<rvars, cvars, pvars>>

NULL == [null |-> TRUE]
NoElement == "none"      \* null where an element is expected

----------------------------------------------------------------------------
(* JavaScript string primitives                                            *)

Min(a, b) == IF a < b THEN a ELSE b
Max(a, b) == IF a > b THEN a ELSE b

\* String.prototype.substring(start, end): both arguments are clamped to
\* [0, length] and swapped when start > end.
substring(text, start, end) ==
    LET a == Max(0, Min(start, Len(text)))
        b == Max(0, Min(end, Len(text)))
    IN  SubSeq(text, Min(a, b) + 1, Max(a, b))

\* substring(start) with the end omitted: up to the end of the string.
substringFrom(text, start) == substring(text, start, Len(text))

RECURSIVE indexOfFrom(_, _, _)
indexOfFrom(text, searchText, i) ==
    IF i + Len(searchText) > Len(text) THEN -1
    ELSE IF SubSeq(text, i + 1, i + Len(searchText)) = searchText THEN i
    ELSE indexOfFrom(text, searchText, i + 1)

\* String.prototype.indexOf(searchText): first index, or -1.
indexOf(text, searchText) == indexOfFrom(text, searchText, 0)

\* The upper-case letters of the model's alphabets and their lower-case forms.
lowerChar(c) ==
    CASE c = "A" -> "a"
      [] c = "B" -> "b"
      [] c = "I" -> "i"
      [] OTHER   -> c

toLowerCase(text) == [i \in 1..Len(text) |-> lowerChar(text[i])]

isSpace(c) == c \in {" ", "\n"}

RECURSIVE trimStart(_)
trimStart(text) ==
    IF text # <<>> /\ isSpace(Head(text)) THEN trimStart(Tail(text)) ELSE text

RECURSIVE trimEnd(_)
trimEnd(text) ==
    IF text # <<>> /\ isSpace(text[Len(text)])
    THEN trimEnd(SubSeq(text, 1, Len(text) - 1)) ELSE text

trim(text) == trimEnd(trimStart(text))

----------------------------------------------------------------------------
(* background.js: analyzeTextWithLLM, lines 100-158                        *)

\* String.prototype.lastIndexOf(searchText): last index, or -1.
RECURSIVE lastIndexOfFrom(_, _, _)
lastIndexOfFrom(text, searchText, i) ==
    IF i < 0 THEN -1
    ELSE IF SubSeq(text, i + 1, i + Len(searchText)) = searchText THEN i
    ELSE lastIndexOfFrom(text, searchText, i - 1)

\* reconcile with the literal search done before the exact-match check.
reconcileSearchFirst(text, suggestion) ==
    LET searchText == suggestion.problematicText
        foundIndex == indexOf(text, searchText)
        lowerIndex == indexOf(toLowerCase(text), toLowerCase(searchText))
    IN  IF foundIndex # -1
        THEN [suggestion EXCEPT !.start = foundIndex,
                                !.end = foundIndex + Len(searchText)]
        ELSE IF lowerIndex # -1
             THEN [suggestion EXCEPT !.start = lowerIndex,
                                     !.end = lowerIndex + Len(searchText)]
        ELSE NULL

\* reconcile with text.lastIndexOf in place of text.indexOf.
reconcileLastIndex(text, suggestion) ==
    LET actualText == substring(text, suggestion.start, suggestion.end)
        searchText == suggestion.problematicText
        foundIndex == lastIndexOfFrom(text, searchText, Len(text) - Len(searchText))
        lowerIndex == indexOf(toLowerCase(text), toLowerCase(searchText))
    IN  IF actualText = suggestion.problematicText THEN suggestion
        ELSE IF foundIndex # -1
             THEN [suggestion EXCEPT !.start = foundIndex,
                                     !.end = foundIndex + Len(searchText)]
        ELSE IF lowerIndex # -1
             THEN [suggestion EXCEPT !.start = lowerIndex,
                                     !.end = lowerIndex + Len(searchText)]
        ELSE NULL

\* reconcile that keeps a suggestion it could not find, offsets as given.
reconcileKeepsUnfound(text, suggestion) ==
    LET actualText == substring(text, suggestion.start, suggestion.end)
        searchText == suggestion.problematicText
        foundIndex == indexOf(text, searchText)
        lowerIndex == indexOf(toLowerCase(text), toLowerCase(searchText))
    IN  IF actualText = suggestion.problematicText THEN suggestion
        ELSE IF foundIndex # -1
             THEN [suggestion EXCEPT !.start = foundIndex,
                                     !.end = foundIndex + Len(searchText)]
        ELSE IF lowerIndex # -1
             THEN [suggestion EXCEPT !.start = lowerIndex,
                                     !.end = lowerIndex + Len(searchText)]
        ELSE suggestion

\* The callback of suggestions.map(...): the suggestion, a relocated copy, or null.
reconcile(text, suggestion) ==
    LET actualText == substring(text, suggestion.start, suggestion.end)
        searchText == suggestion.problematicText
        foundIndex == indexOf(text, searchText)
        lowerIndex == indexOf(toLowerCase(text), toLowerCase(searchText))
    IN  IF actualText = suggestion.problematicText THEN suggestion
        ELSE IF foundIndex # -1
             THEN [suggestion EXCEPT !.start = foundIndex,
                                     !.end = foundIndex + Len(searchText)]
        ELSE IF lowerIndex # -1
             THEN [suggestion EXCEPT !.start = lowerIndex,
                                     !.end = lowerIndex + Len(searchText)]
        ELSE NULL

notNull(s) == s # NULL

\* parseJSONResponse: the parsed array, or [] for anything else.
parseJSONResponse(payload) ==
    IF payload.shape = "array" THEN payload.items ELSE <<>>

\* An element of the parsed array that is JSON null.
JSONNull == [json |-> "null"]

\* The map callback throws a TypeError on `suggestion`: reading .start of
\* null (line 107), or searchText.toLowerCase() (line 141) when the object
\* has no problematicText: substring(..) === undefined is false and
\* text.indexOf(undefined) looks for the word "undefined".
callbackThrows(text, suggestion) ==
    \/ suggestion = JSONNull
    \/ "problematicText" \notin DOMAIN suggestion

\* analyzeTextWithLLM rejects: the throw leaves map, is caught and thrown
\* again (lines 155-158).
analysisThrows(text, payload) ==
    \E i \in DOMAIN parseJSONResponse(payload) :
        callbackThrows(text, parseJSONResponse(payload)[i])

\* correctedSuggestions of analyzeTextWithLLM for the reply `payload`.
analyzeTextWithLLM(text, payload) ==
    LET suggestions == parseJSONResponse(payload)
        mapped == [i \in 1..Len(suggestions) |-> reconcile(text, suggestions[i])]
    IN  SelectSeq(mapped, notNull)   \* .filter(s => s !== null)

----------------------------------------------------------------------------
(* content.js: the monitored elements and what the user and oracle can do  *)

Elements == {"e1", "e2"}
Kinds == {"TEXTAREA", "INPUT", "EDITABLE"}

MinLength == 10     \* content.js:95
MaxCorrections == 2
MaxItems == 2       \* longest oracle reply enumerated for the content script

TextHas  == <<"I"," ","h","a","s"," ","a"," ","d","o","g">>
TextPad  == <<" "," "," ","a"," ","d","o","g"," "," "," "," ">>
Texts == {TextHas, TextPad}

TextHave == <<"I"," ","h","a","v","e"," ","a"," ","d","o","g">>

RawHas  == [start |-> 2, end |-> 5, problematicText |-> <<"h","a","s">>,
            correction |-> <<"h","a","v","e">>]
RawHasA == [start |-> 2, end |-> 7, problematicText |-> <<"h","a","s"," ","a">>,
            correction |-> <<"g","o","t">>]
RawDog  == [start |-> 8, end |-> 11, problematicText |-> <<"d","o","g">>,
            correction |-> <<"c","a","t">>]
RawPool == {RawHas, RawHasA, RawDog}

SeqsUpTo(S, n) == UNION {[1..k -> S] : k \in 0..n}

Payloads == {[shape |-> "unparseable", items |-> <<>>],
             [shape |-> "notArray", items |-> <<>>]}
            \cup {[shape |-> "array", items |-> l] : l \in SeqsUpTo(RawPool, MaxItems)}

\* How a sendMessage call can end: the background answers {suggestions},
\* answers {error}, or the call itself rejects.
Outcomes == {[how |-> "error"], [how |-> "throw"]}
            \cup {[how |-> "reply", payload |-> p] : p \in Payloads}

\* text && text.trim().length >= 10
qualifies(text) == text # <<>> /\ Len(trim(text)) >= MinLength

\* The two comparators of the source: (a, b) => a.start - b.start (ascending,
\* content.js:383) and (a, b) => b.start - a.start (descending, content.js:154).
comesBefore(a, b, descending) ==
    IF descending THEN a.start > b.start ELSE a.start < b.start

\* [...suggestions].sort(cmp): Array.prototype.sort is stable.
RECURSIVE insertSorted(_, _, _)
insertSorted(sorted, x, descending) ==
    IF sorted = <<>> THEN <<x>>
    ELSE IF comesBefore(x, Head(sorted), descending) THEN <<x>> \o sorted
    ELSE <<Head(sorted)>> \o insertSorted(Tail(sorted), x, descending)

RECURSIVE sortByStart(_, _)
sortByStart(s, descending) ==
    IF s = <<>> THEN <<>>
    ELSE insertSorted(sortByStart(SubSeq(s, 1, Len(s) - 1), descending),
                      s[Len(s)], descending)

----------------------------------------------------------------------------
(* content.js: rendering                                                   *)

\* createPositionedOverlay, lines 346-410: one <mark> per suggestion, in
\* ascending order of start.
newOverlay(suggestions, element) ==
    [element |-> element, marks |-> sortByStart(suggestions, FALSE)]

\* window.addEventListener('scroll', ...) and ('resize', ...), lines 608-609.
\* A pair is known by the element its updatePosition closes over and by
\* whether its overlay is the one made last for that element ("latest") or
\* an earlier one ("older"); pairs that agree in both are kept as one.
\* Removing the existing overlay node (lines 338-341) unsubscribes nothing.
subscribe(pairs, element) ==
    {IF l.element = element THEN [l EXCEPT !.overlay = "older"] ELSE l : l \in pairs}
        \cup {[element |-> element, overlay |-> "latest"]}

\* cleanup (lines 494-505) of every overlay made for element: what the
\* element's once-only input listeners (line 616) run together.
unsubscribeAll(pairs, element) == {l \in pairs : l.element # element}

\* cleanup of the overlay made last for element, the one activeOverlays
\* holds (line 624).
unsubscribeLatest(pairs, element) ==
    pairs \ {[element |-> element, overlay |-> "latest"]}

usesWrapper(element) == kind[element] \in {"TEXTAREA", "INPUT"}     \* content.js:138
usesOverlay(element) == kind[element] = "EDITABLE"                  \* content.js:140

\* displaySuggestions with removeHighlights, createOverlayHighlights,
\* createInlineHighlights and createPositionedOverlay.
displaySuggestions(suggestions, element) ==
    LET none == suggestions = <<>>      \* content.js:135
    IN  /\ highlightLayer' =
              [highlightLayer EXCEPT ![element] =
                  IF ~none /\ usesWrapper(element)
                  THEN sortByStart(suggestions, TRUE) ELSE <<>>]
        /\ dataSuggestions' =
              [dataSuggestions EXCEPT ![element] =
                  IF none THEN NULL ELSE [json |-> suggestions]]
        /\ IF ~none /\ usesOverlay(element)
           THEN /\ activeOverlays' =
                      [activeOverlays EXCEPT ![element] = newOverlay(suggestions, element)]
                /\ IF element \in detached
                   \* the first updatePosition() (line 613) finds the host
                   \* gone and runs the new overlay's cleanup
                   THEN /\ docOverlay' = NULL
                        /\ listeners' =
                              unsubscribeLatest(subscribe(listeners, element), element)
                   ELSE /\ docOverlay' = newOverlay(suggestions, element)
                        /\ listeners' = subscribe(listeners, element)
           ELSE UNCHANGED <<docOverlay, activeOverlays, listeners>>

\* What the tooltip's Replace button refers to once displaySuggestions has
\* run: activeOverlays.set (line 624) drops the overlay its mark sits in.
tooltipAfterDisplay(suggestions, element) ==
    IF suggestions # <<>> /\ usesOverlay(element) /\ tooltip # NULL
       /\ tooltip.host = element
    THEN [tooltip EXCEPT !.registered = FALSE]
    ELSE tooltip

----------------------------------------------------------------------------
(* content.js: analysis session                                            *)

\* analyzeText without its check for an ongoing analysis.
alreadyAnalyzingNever == FALSE

\* content.js:100  if (currentAnalysis) return;
alreadyAnalyzing == currentAnalysis # NULL

\* analyzeText up to its await (lines 94-112).
analyzeText(text, element) ==
    IF ~qualifies(text) \/ alreadyAnalyzing
    THEN UNCHANGED <<currentAnalysis, requests>>
    ELSE /\ currentAnalysis' = [text |-> text, element |-> element]
         /\ requests' = Append(requests, [text |-> text, element |-> element])

\* The condition of the focus and initial-scan paths (content.js:55, 68).
settingsAllow == currentSettings.enabled /\ currentSettings.apiKey

triggerRecord(source, element, text) ==
    [op |-> "trigger", source |-> source, element |-> element,
     busy |-> requests # <<>>]

\* clearTimeout that cancels nothing.
clearTimeoutNoop(pending, timer) == pending

\* clearTimeout(analysisTimeout), content.js:88.
clearTimeout(pending, timer) == pending \ {timer}

\* chrome.storage load and onChanged (lines 17-26).
storageChanged(enabled, apiKey) ==
    /\ currentSettings' = [enabled |-> enabled, apiKey |-> apiKey]
    /\ currentSettings' # currentSettings
    /\ last' = [op |-> "settings"]
    /\ UNCHANGED <<analysisTimeout, timers, scanTimers, activeElement, tooltip,
                   currentAnalysis, requests, elementSuggestions, activeOverlays,
                   docOverlay, highlightLayer, dataSuggestions, kind, elText>>
    /\ UNCHANGED <<rvars, corrections, pvars, listeners>>

\* An input event on `element` leaving it with `text`: the overlay's one-shot
\* cleanup listener (line 616) and handleTextInput (lines 79-92).
handleTextInput(element, text) ==
    /\ elText' = [elText EXCEPT ![element] = text]
    /\ docOverlay' = IF docOverlay # NULL /\ docOverlay.element = element
                     THEN NULL ELSE docOverlay
    /\ listeners' = unsubscribeAll(listeners, element)
    /\ IF ~currentSettings.enabled \/ ~currentSettings.apiKey
       THEN UNCHANGED <<analysisTimeout, timers>>
       ELSE LET timer == [text |-> text, element |-> element]
            IN  /\ timers' = clearTimeout(timers, analysisTimeout) \cup {timer}
                /\ analysisTimeout' = timer
    /\ last' = [op |-> "input", element |-> element]
    /\ UNCHANGED <<currentSettings, scanTimers, activeElement, tooltip,
                   currentAnalysis, requests, elementSuggestions, activeOverlays,
                   highlightLayer, dataSuggestions, kind>>
    /\ UNCHANGED <<rvars, corrections, pvars>>

\* The debounce timer's callback (lines 89-91).
debounceFires(timer) ==
    /\ timer \in timers
    /\ timers' = timers \ {timer}
    /\ analyzeText(timer.text, timer.element)
    /\ last' = triggerRecord("timer", timer.element, timer.text)
    /\ UNCHANGED <<currentSettings, analysisTimeout, scanTimers, activeElement,
                   tooltip, elementSuggestions, activeOverlays, docOverlay,
                   highlightLayer, dataSuggestions, kind, elText>>
    /\ UNCHANGED <<rvars, corrections, pvars, listeners>>

\* The initial-scan timer's callback (lines 53-58).
scanFires(element) ==
    /\ element \in scanTimers
    /\ scanTimers' = scanTimers \ {element}
    /\ IF settingsAllow /\ qualifies(elText[element])
       THEN /\ analyzeText(elText[element], element)
            /\ last' = triggerRecord("scan", element, elText[element])
       ELSE /\ UNCHANGED <<currentAnalysis, requests>>
            /\ last' = [op |-> "gated", source |-> "scan", element |-> element]
    /\ UNCHANGED <<currentSettings, analysisTimeout, timers, activeElement,
                   tooltip, elementSuggestions, activeOverlays, docOverlay,
                   highlightLayer, dataSuggestions, kind, elText>>
    /\ UNCHANGED <<rvars, corrections, pvars, listeners>>

\* handleFocus that schedules the analysis behind the debounce timer.
handleFocusDebounced(element) ==
    /\ activeElement' = element
    /\ IF settingsAllow /\ qualifies(elText[element])
       THEN LET timer == [text |-> elText[element], element |-> element]
            IN  /\ timers' = clearTimeout(timers, analysisTimeout) \cup {timer}
                /\ analysisTimeout' = timer
                /\ last' = triggerRecord("focus", element, elText[element])
       ELSE /\ UNCHANGED <<analysisTimeout, timers>>
            /\ last' = [op |-> "gated", source |-> "focus", element |-> element]
    /\ UNCHANGED <<currentSettings, currentAnalysis, requests, scanTimers,
                   tooltip, elementSuggestions, activeOverlays, docOverlay,
                   highlightLayer, dataSuggestions, kind, elText>>
    /\ UNCHANGED <<rvars, corrections, pvars, listeners>>

\* handleFocus (lines 61-71).
handleFocus(element) ==
    /\ activeElement' = element
    /\ IF settingsAllow /\ qualifies(elText[element])
       THEN /\ analyzeText(elText[element], element)
            /\ last' = triggerRecord("focus", element, elText[element])
       ELSE /\ UNCHANGED <<currentAnalysis, requests>>
            /\ last' = [op |-> "gated", source |-> "focus", element |-> element]
    /\ UNCHANGED <<currentSettings, analysisTimeout, timers, scanTimers,
                   tooltip, elementSuggestions, activeOverlays, docOverlay,
                   highlightLayer, dataSuggestions, kind, elText>>
    /\ UNCHANGED <<rvars, corrections, pvars, listeners>>

\* handleBlur (lines 73-77).
handleBlur(element) ==
    /\ activeElement = element
    /\ activeElement' = NoElement
    /\ last' = [op |-> "blur", element |-> element]
    /\ UNCHANGED <<currentSettings, analysisTimeout, timers, scanTimers,
                   tooltip, currentAnalysis, requests, elementSuggestions,
                   activeOverlays, docOverlay, highlightLayer, dataSuggestions,
                   kind, elText>>
    /\ UNCHANGED <<rvars, corrections, pvars, listeners>>

\* A response whose suggestions are an empty list when the call failed.
responseSuggestionsOrEmpty(text, outcome) ==
    IF outcome.how = "reply"
    THEN [list |-> analyzeTextWithLLM(text, outcome.payload)]
    ELSE [list |-> <<>>]

\* response && response.suggestions (content.js:114): the list the background
\* sent, or NULL when it answered {error} or the call was rejected.
responseSuggestions(text, outcome) ==
    IF outcome.how = "reply"
    THEN [list |-> analyzeTextWithLLM(text, outcome.payload)]
    ELSE NULL

\* currentAnalysis = null at the end of the try block instead of in finally.
clearedInTry(outcome, current) ==
    IF outcome.how = "throw" THEN current ELSE NULL

\* finally { currentAnalysis = null } (content.js:126-128).
clearedInFinally(outcome, current) == NULL

\* The rest of analyzeText once sendMessage settles (lines 114-128), with
\* the background's analyzeTextWithLLM producing response.suggestions.
oracleResponds(r, outcome) ==
    /\ r \in DOMAIN requests
    /\ requests' = [i \in 1..(Len(requests) - 1) |->
                        IF i < r THEN requests[i] ELSE requests[i + 1]]
    /\ currentAnalysis' = clearedInFinally(outcome, currentAnalysis)
    /\ IF responseSuggestions(requests[r].text, outcome) # NULL
       THEN LET suggestions == responseSuggestions(requests[r].text, outcome).list
            IN  /\ elementSuggestions' =
                      [elementSuggestions EXCEPT ![requests[r].element] =
                          [text |-> requests[r].text, suggestions |-> suggestions]]
                /\ displaySuggestions(suggestions, requests[r].element)
                /\ tooltip' = tooltipAfterDisplay(suggestions, requests[r].element)
       ELSE UNCHANGED <<elementSuggestions, activeOverlays, docOverlay,
                        highlightLayer, dataSuggestions, tooltip, listeners>>
    /\ last' = [op |-> "response", element |-> requests[r].element,
                text |-> requests[r].text, how |-> outcome.how]
    /\ UNCHANGED <<currentSettings, analysisTimeout, timers, scanTimers,
                   activeElement, kind, elText>>
    /\ UNCHANGED <<rvars, corrections, pvars>>

----------------------------------------------------------------------------
(* content.js: tooltip and correction                                      *)

\* mouseenter on the i-th <mark> of the overlay in the document (lines 417-429).
markHover(i) ==
    /\ docOverlay # NULL
    /\ i \in 1..Len(docOverlay.marks)
    /\ tooltip' = [suggestion |-> docOverlay.marks[i], via |-> "mark",
                   host |-> docOverlay.element, registered |-> TRUE]
    /\ last' = [op |-> "other"]
    /\ UNCHANGED <<currentSettings, analysisTimeout, timers, scanTimers,
                   activeElement, currentAnalysis, requests, elementSuggestions,
                   activeOverlays, docOverlay, highlightLayer, dataSuggestions,
                   kind, elText>>
    /\ UNCHANGED <<rvars, corrections, pvars, listeners>>

\* handleHighlightHover (lines 199-212) for the span with data-suggestion-id
\* i - 1 of element's highlight layer.  The span has no ancestor carrying
\* data-suggestions (the attribute is set on its sibling, the field itself),
\* so closest() yields null and activeElement is used.
handleHighlightHover(element, i) ==
    /\ i \in 1..Len(highlightLayer[element])
    /\ activeElement # NoElement
    /\ LET suggestions == IF dataSuggestions[activeElement] = NULL THEN <<>>
                          ELSE dataSuggestions[activeElement].json
       IN  /\ i <= Len(suggestions)
           /\ tooltip' = [suggestion |-> suggestions[i], via |-> "highlight",
                          host |-> element, registered |-> FALSE]
    /\ last' = [op |-> "other"]
    /\ UNCHANGED <<currentSettings, analysisTimeout, timers, scanTimers,
                   activeElement, currentAnalysis, requests, elementSuggestions,
                   activeOverlays, docOverlay, highlightLayer, dataSuggestions,
                   kind, elText>>
    /\ UNCHANGED <<rvars, corrections, pvars, listeners>>

\* hideTooltip (lines 264-268), from a mouseleave.
hideTooltip ==
    /\ tooltip # NULL
    /\ tooltip' = NULL
    /\ last' = [op |-> "other"]
    /\ UNCHANGED <<currentSettings, analysisTimeout, timers, scanTimers,
                   activeElement, currentAnalysis, requests, elementSuggestions,
                   activeOverlays, docOverlay, highlightLayer, dataSuggestions,
                   kind, elText>>
    /\ UNCHANGED <<rvars, corrections, pvars, listeners>>

\* applySuggestion lines 272-283: the element whose activeOverlays entry is
\* the overlay the mark sits in, or none.
targetElement(mark) ==
    IF mark.via = "mark" /\ mark.registered THEN mark.host ELSE NoElement

\* applySuggestion lines 289-291.
newText(currentText, suggestion) ==
    substring(currentText, 0, suggestion.start)
        \o suggestion.correction
        \o substringFrom(currentText, suggestion.end)

\* applySuggestion line 305.
lengthDiff(suggestion) ==
    Len(suggestion.correction) - (suggestion.end - suggestion.start)

\* The filter's predicate comparing the start offsets only.
isOtherByStart(s, suggestion) == s.start # suggestion.start

\* applySuggestion line 309: the filter's predicate.
isOther(s, suggestion) == s.start # suggestion.start \/ s.end # suggestion.end

\* adjust with > in place of >=: a span that starts where the corrected one
\* ended stays where it was.
adjustStrictlyAfter(s, suggestion) ==
    IF s.start > suggestion.end
    THEN [s EXCEPT !.start = s.start + lengthDiff(suggestion),
                   !.end = s.end + lengthDiff(suggestion)]
    ELSE s

\* adjust that moves the start of a later span but not its end.
adjustStartOnly(s, suggestion) ==
    IF s.start >= suggestion.end
    THEN [s EXCEPT !.start = s.start + lengthDiff(suggestion)]
    ELSE s

\* applySuggestion lines 310-320: the map's callback.
adjust(s, suggestion) ==
    IF s.start >= suggestion.end
    THEN [s EXCEPT !.start = s.start + lengthDiff(suggestion),
                   !.end = s.end + lengthDiff(suggestion)]
    ELSE s

\* applySuggestion lines 308-320.
updatedSuggestions(stored, suggestion) ==
    LET keep(s) == isOther(s, suggestion)
        kept == SelectSeq(stored, keep)
    IN  [i \in 1..Len(kept) |-> adjust(kept[i], suggestion)]

\* Click on the tooltip's Replace button (lines 255-260): applySuggestion,
\* then hideTooltip.
replaceClick ==
    /\ tooltip # NULL
    /\ tooltip.suggestion.correction # <<>>      \* the button exists (line 223)
    /\ corrections < MaxCorrections
    /\ corrections' = corrections + 1
    /\ LET suggestion == tooltip.suggestion
           target == targetElement(tooltip)
       IN  /\ IF target = NoElement
              THEN UNCHANGED <<elText, elementSuggestions, activeOverlays,
                               docOverlay, highlightLayer, dataSuggestions,
                               listeners>>
              ELSE /\ elText' = [elText EXCEPT ![target] =
                                    newText(elText[target], suggestion)]
                   /\ IF elementSuggestions[target] = NULL
                      THEN UNCHANGED <<elementSuggestions, activeOverlays,
                                       docOverlay, highlightLayer, dataSuggestions,
                                       listeners>>
                      ELSE LET updated == updatedSuggestions(
                                    elementSuggestions[target].suggestions, suggestion)
                           IN  /\ elementSuggestions' =
                                     [elementSuggestions EXCEPT ![target] =
                                         [text |-> newText(elText[target], suggestion),
                                          suggestions |-> updated]]
                               /\ displaySuggestions(updated, target)
           /\ last' = [op |-> "replace", suggestion |-> suggestion,
                       host |-> tooltip.host, target |-> target,
                       textBefore |-> elText[tooltip.host],
                       storedBefore |-> elementSuggestions[tooltip.host]]
    /\ tooltip' = NULL
    /\ UNCHANGED <<currentSettings, analysisTimeout, timers, scanTimers,
                   activeElement, currentAnalysis, requests, kind>>
    /\ UNCHANGED <<rvars, pvars>>

----------------------------------------------------------------------------
(* The content script from page load on                                    *)

\* State once the script has run to its end: every editable element of the
\* page was found by monitorPage() (line 750) and waits for its scan timer.
CInit ==
    /\ currentSettings = [enabled |-> TRUE, apiKey |-> FALSE]
    /\ analysisTimeout = NULL
    /\ timers = {}
    /\ scanTimers = Elements
    /\ activeElement = NoElement
    /\ tooltip = NULL
    /\ currentAnalysis = NULL
    /\ requests = <<>>
    /\ elementSuggestions = [e \in Elements |-> NULL]
    /\ activeOverlays = [e \in Elements |-> NULL]
    /\ docOverlay = NULL
    /\ highlightLayer = [e \in Elements |-> <<>>]
    /\ dataSuggestions = [e \in Elements |-> NULL]
    /\ last = [op |-> "load"]
    /\ corrections = 0
    /\ listeners = {}

RIdle ==
    /\ rText = <<>>
    /\ rPayload = NULL
    /\ rOut = NULL

\* The listeners of lines 48-50.
Listened == {"input", "focus", "blur"}

\* monitorPage() has set up every element (line 750).
MonitorDone ==
    /\ monitored = Elements
    /\ handlers = [e \in Elements |-> Listened]
    /\ scanCount = [e \in Elements |-> 1]

\* No overlay content is being built.
PlanIdle ==
    /\ overlayText = NULL
    /\ overlaySuggestions = <<>>
    /\ overlayHtml = NULL

\* No overlay is being placed.
PIdle ==
    /\ geometry = NULL
    /\ overlayStyle = NULL
    /\ detached = {}
    /\ collapsed = {}
    /\ toolbars = {}
    /\ markRects = <<>>
    /\ markVisibility = <<>>
    /\ PlanIdle
    /\ MonitorDone

\* The content script's handlers together: every element, every event.  The
\* placement of an overlay is followed separately (SpecPosition).
Init ==
    /\ CInit
    /\ kind \in {k \in [Elements -> Kinds] : k["e1"] = "EDITABLE"}
    /\ elText \in [Elements -> Texts]
    /\ RIdle
    /\ PIdle

Next ==
    \/ \E enabled \in BOOLEAN, apiKey \in BOOLEAN : storageChanged(enabled, apiKey)
    \/ \E e \in Elements, t \in Texts : handleTextInput(e, t)
    \/ \E t \in timers : debounceFires(t)
    \/ \E e \in Elements : scanFires(e)
    \/ \E e \in Elements : handleFocus(e)
    \/ \E e \in Elements : handleBlur(e)
    \/ \E r \in DOMAIN requests, o \in Outcomes : oracleResponds(r, o)
    \/ \E i \in 1..MaxItems : markHover(i)
    \/ \E e \in Elements, i \in 1..MaxItems : handleHighlightHover(e, i)
    \/ hideTooltip
    \/ replaceClick

Spec == Init /\ [][Next]_vars

\* Corrections on the field e1.  The state is the one reached when the scan
\* timers fired before the settings arrived, the user then focused e1 holding
\* TextHas, and the oracle's reply for it was a list whose items all passed
\* the exact-match check; from there the user hovers and clicks Replace.
Cuts == {0, 2, 5, 7, 8, 11}

SpanPool ==
    {[start |-> p[1], end |-> p[2], problematicText |-> substring(TextHas, p[1], p[2]),
      correction |-> <<"h","a","v","e">>] : p \in {q \in Cuts \X Cuts : q[1] < q[2]}}

InitCorrection ==
    \E reply \in SeqsUpTo(SpanPool, MaxItems) :
        /\ currentSettings = [enabled |-> TRUE, apiKey |-> TRUE]
        /\ analysisTimeout = NULL
        /\ timers = {}
        /\ scanTimers = {}
        /\ activeElement = "e1"
        /\ tooltip = NULL
        /\ currentAnalysis = NULL
        /\ requests = <<>>
        /\ corrections = 0
        /\ kind \in {k \in [Elements -> Kinds] : k["e2"] = "EDITABLE"}
        /\ elText = [e \in Elements |-> TextHas]
        /\ elementSuggestions =
              [e \in Elements |-> IF e = "e1"
                                  THEN [text |-> TextHas, suggestions |-> reply]
                                  ELSE NULL]
        /\ highlightLayer =
              [e \in Elements |-> IF e = "e1" /\ kind[e] \in {"TEXTAREA", "INPUT"}
                                  THEN sortByStart(reply, TRUE) ELSE <<>>]
        /\ dataSuggestions =
              [e \in Elements |-> IF e = "e1" /\ reply # <<>>
                                  THEN [json |-> reply] ELSE NULL]
        /\ docOverlay = IF reply # <<>> /\ kind["e1"] = "EDITABLE"
                        THEN newOverlay(reply, "e1") ELSE NULL
        /\ activeOverlays =
              [e \in Elements |-> IF e = "e1" /\ reply # <<>> /\ kind[e] = "EDITABLE"
                                  THEN newOverlay(reply, "e1") ELSE NULL]
        /\ listeners = IF reply # <<>> /\ kind["e1"] = "EDITABLE"
                       THEN subscribe({}, "e1") ELSE {}
        /\ last = [op |-> "response", element |-> "e1", text |-> TextHas,
                   how |-> "reply"]
        /\ RIdle
    /\ PIdle

NextCorrection ==
    \/ \E i \in 1..MaxItems : markHover(i)
    \/ \E e \in Elements, i \in 1..MaxItems : handleHighlightHover(e, i)
    \/ hideTooltip
    \/ replaceClick

SpecCorrection == InitCorrection /\ [][NextCorrection]_vars

\* Reconciliation of one oracle reply in the background worker.
RAlphabet == {"a", "A", "b"}
MaxTextLen == 3
MaxLiteralLen == 2

RItems ==
    {[start |-> a, end |-> b, problematicText |-> l, correction |-> <<"b">>] :
        a \in -1..(MaxTextLen + 1), b \in -1..(MaxTextLen + 1),
        l \in SeqsUpTo(RAlphabet, MaxLiteralLen)}

RPayloads ==
    {[shape |-> "unparseable", items |-> <<>>], [shape |-> "notArray", items |-> <<>>],
     [shape |-> "array", items |-> <<>>]}
    \cup {[shape |-> "array", items |-> <<item>>] : item \in RItems}

\* fetch resolves with the oracle's text (background.js:96-97).
oracleReplies(payload) ==
    /\ rPayload = NULL
    /\ rPayload' = payload
    /\ UNCHANGED <<rText, rOut, cvars, pvars>>

\* analyzeTextWithLLM resolves and the listener answers (background.js:100-158, 11-14).
sendResponse ==
    /\ rPayload # NULL
    /\ rOut = NULL
    /\ rOut' = IF analysisThrows(rText, rPayload)
               THEN [error |-> TRUE]         \* .catch, line 15-17
               ELSE [suggestions |-> analyzeTextWithLLM(rText, rPayload)]
    /\ UNCHANGED <<rText, rPayload, cvars, pvars>>

InitReconcile ==
    /\ rText \in SeqsUpTo(RAlphabet, MaxTextLen)
    /\ rPayload = NULL
    /\ rOut = NULL
    /\ CInit
    /\ kind = [e \in Elements |-> "EDITABLE"]
    /\ elText = [e \in Elements |-> <<>>]
    /\ PIdle

NextReconcile ==
    \/ \E p \in RPayloads : oracleReplies(p)
    \/ sendResponse

SpecReconcile == InitReconcile /\ [][NextReconcile]_vars

\* Reconciliation of a reply with several items, some of them not the
\* objects that were asked for.
BatchItems ==
    {[start |-> a, end |-> a + Len(l), problematicText |-> l, correction |-> <<"b">>] :
        a \in {0, 1}, l \in {<<"a">>, <<"b">>, <<"a", "b">>}}
    \cup {JSONNull, [start |-> 0, end |-> 1, correction |-> <<"b">>]}

BatchPayloads ==
    {[shape |-> "array", items |-> items] : items \in SeqsUpTo(BatchItems, MaxItems)}

NextBatch ==
    \/ \E p \in BatchPayloads : oracleReplies(p)
    \/ sendResponse

SpecBatch == InitReconcile /\ [][NextBatch]_vars

\* The analysis session on two fields: edits, timers, focus, settings and
\* oracle responses, without corrections.
SessionOutcomes ==
    {[how |-> "error"], [how |-> "throw"],
     [how |-> "reply", payload |-> [shape |-> "unparseable", items |-> <<>>]],
     [how |-> "reply", payload |-> [shape |-> "array", items |-> <<>>]],
     [how |-> "reply", payload |-> [shape |-> "array", items |-> <<RawHas>>]]}

InitSession ==
    /\ CInit
    /\ kind = [e \in Elements |-> IF e = "e1" THEN "EDITABLE" ELSE "TEXTAREA"]
    /\ elText \in [Elements -> Texts]
    /\ RIdle
    /\ PIdle

NextSession ==
    \/ \E enabled \in BOOLEAN, apiKey \in BOOLEAN : storageChanged(enabled, apiKey)
    \/ \E e \in Elements, t \in Texts : handleTextInput(e, t)
    \/ \E t \in timers : debounceFires(t)
    \/ \E e \in Elements : scanFires(e)
    \/ \E e \in Elements : handleFocus(e)
    \/ \E e \in Elements : handleBlur(e)
    \/ \E r \in DOMAIN requests, o \in SessionOutcomes : oracleResponds(r, o)

SpecSession == InitSession /\ [][NextSession]_vars

\* Edits that arrive while an analysis is in flight.  The state after the
\* settings were loaded, both initial scans ran before that, and e1 was
\* focused: its text is being analysed.
FlightTexts == {TextHas, TextHave, TextPad}

InitFlight ==
    /\ currentSettings = [enabled |-> TRUE, apiKey |-> TRUE]
    /\ analysisTimeout = NULL
    /\ timers = {}
    /\ scanTimers = {}
    /\ activeElement = "e1"
    /\ tooltip = NULL
    /\ currentAnalysis = [text |-> TextHas, element |-> "e1"]
    /\ requests = <<[text |-> TextHas, element |-> "e1"]>>
    /\ elementSuggestions = [e \in Elements |-> NULL]
    /\ activeOverlays = [e \in Elements |-> NULL]
    /\ docOverlay = NULL
    /\ highlightLayer = [e \in Elements |-> <<>>]
    /\ dataSuggestions = [e \in Elements |-> NULL]
    /\ kind \in {k \in [Elements -> Kinds] : k["e2"] = "TEXTAREA"}
    /\ elText \in {t \in [Elements -> FlightTexts] : t["e1"] = TextHas}
    /\ corrections = 0
    /\ listeners = {}
    /\ last = [op |-> "trigger", source |-> "focus", element |-> "e1",
               busy |-> FALSE]
    /\ RIdle
    /\ PIdle

NextFlight ==
    \/ \E e \in Elements, t \in FlightTexts :
           requests # <<>> /\ handleTextInput(e, t)
    \/ \E t \in timers : debounceFires(t)
    \/ \E r \in DOMAIN requests, o \in SessionOutcomes : oracleResponds(r, o)

SpecFlight == InitFlight /\ [][NextFlight]_vars

----------------------------------------------------------------------------
(* content.js: overlay placement (updatePosition, lines 508-604)           *)

\* A rectangle is [top, bottom, left, right] in viewport coordinates, as
\* getBoundingClientRect returns it.  geometry is
\* [rect, containers, innerHeight, innerWidth]: the host element's rectangle,
\* the rectangles of its ancestors whose overflow is not visible (innermost
\* first), and the window's inner size.
SetMax(S) == CHOOSE x \in S : \A y \in S : y <= x
SetMin(S) == CHOOSE x \in S : \A y \in S : x <= y

\* Lines 540-563: the most restrictive container bounds (-Infinity and
\* Infinity when there is no container, so nothing is clipped) and the insets
\* they cut from newRect.
containerClip(containers, newRect) ==
    LET tops == {containers[i].top : i \in DOMAIN containers}
        bottoms == {containers[i].bottom : i \in DOMAIN containers}
        lefts == {containers[i].left : i \in DOMAIN containers}
        rights == {containers[i].right : i \in DOMAIN containers}
    IN  [top |-> IF tops # {} /\ SetMax(tops) > newRect.top
                 THEN SetMax(tops) - newRect.top ELSE 0,
         bottom |-> IF bottoms # {} /\ SetMin(bottoms) < newRect.bottom
                    THEN newRect.bottom - SetMin(bottoms) ELSE 0,
         left |-> IF lefts # {} /\ SetMax(lefts) > newRect.left
                  THEN SetMax(lefts) - newRect.left ELSE 0,
         right |-> IF rights # {} /\ SetMin(rights) < newRect.right
                   THEN newRect.right - SetMin(rights) ELSE 0]

\* Lines 565-581: the viewport's insets where they are larger, then
\* Math.max(0, ...).
clipInsets(g) ==
    LET c == containerClip(g.containers, g.rect)
        viewportTop == -g.rect.top
        viewportBottom == g.rect.bottom - g.innerHeight
        viewportLeft == -g.rect.left
        viewportRight == g.rect.right - g.innerWidth
    IN  [top |-> Max(0, IF viewportTop > c.top THEN viewportTop ELSE c.top),
         bottom |-> Max(0, IF viewportBottom > c.bottom THEN viewportBottom ELSE c.bottom),
         left |-> Max(0, IF viewportLeft > c.left THEN viewportLeft ELSE c.left),
         right |-> Max(0, IF viewportRight > c.right THEN viewportRight ELSE c.right)]

\* Lines 583-587.
isOutOfView(g) ==
    LET clip == clipInsets(g)
        height == g.rect.bottom - g.rect.top
        width == g.rect.right - g.rect.left
    IN  \/ clip.top >= height
        \/ clip.bottom >= height
        \/ clip.left >= width
        \/ clip.right >= width

NoClip == [top |-> 0, bottom |-> 0, left |-> 0, right |-> 0]

\* The overlay as createPositionedOverlay leaves it before its first
\* updatePosition() (lines 354-376): shown, over the element, not clipped.
createdStyle(g) == [display |-> "block", box |-> g.rect, clip |-> NoClip]

\* The overlap test of lines 461-463 and 474-475.
overlaps(a, b) ==
    /\ a.left < b.right /\ a.right > b.left
    /\ a.top < b.bottom /\ a.bottom > b.top

\* hideOverlappingMarks (lines 454-489): the toolbars that overlap the
\* element's rectangle and have a height, and for each mark whether it
\* overlaps one of them.
hideOverlappingMarks(elementRect, bars, rects) ==
    LET relevantToolbars ==
            {t \in bars : overlaps(t, elementRect) /\ t.bottom - t.top > 0}
    IN  [i \in DOMAIN rects |->
            IF \E t \in relevantToolbars : overlaps(rects[i], t)
            THEN "hidden" ELSE "visible"]

\* The marks' visibility after updatePosition: the pass runs only in the
\* branch that shows the overlay (line 602).
visibilityAfter(g, bars, rects, visibility) ==
    IF isOutOfView(g) THEN visibility
    ELSE hideOverlappingMarks(g.rect, bars, rects)

\* updatePosition for an element that is in the document (lines 515-603).
\* A hidden overlay keeps the box and clip-path it had.  clip = NoClip stands
\* for clip-path: none.
updatePosition(g, style) ==
    IF isOutOfView(g)
    THEN [style EXCEPT !.display = "none"]
    ELSE [display |-> "block", box |-> g.rect, clip |-> clipInsets(g)]

Coords == -1..2
MaxContainers == 2

ElementRects ==
    {[top |-> v[1], bottom |-> v[2], left |-> 0, right |-> 2] :
        v \in {w \in Coords \X Coords : w[1] <= w[2]}}

ContainerRects ==
    {[top |-> v[1], bottom |-> v[2], left |-> l, right |-> 2] :
        v \in {w \in Coords \X Coords : w[1] <= w[2]}, l \in {0, 1}}

Geometries ==
    {[rect |-> r, containers |-> cs, innerHeight |-> h, innerWidth |-> 2] :
        r \in ElementRects, cs \in SeqsUpTo(ContainerRects, MaxContainers),
        h \in {1, 2}}

moved(rect, dy) == [rect EXCEPT !.top = @ + dy, !.bottom = @ + dy]

\* A scroll of the window: the element and its ancestors move together
\* (scrollListener, line 606).
windowScroll(dy) ==
    /\ geometry # NULL
    /\ LET g == [geometry EXCEPT
                    !.rect = moved(@, dy),
                    !.containers = [i \in DOMAIN @ |-> moved(@[i], dy)]]
       IN  /\ g \in Geometries
           /\ geometry' = g
           /\ overlayStyle' = updatePosition(g, overlayStyle)
           /\ markRects' = [i \in DOMAIN markRects |-> moved(markRects[i], dy)]
           /\ markVisibility' = visibilityAfter(g, toolbars, markRects', markVisibility)
    /\ UNCHANGED <<rvars, cvars, plan, monitor, detached, collapsed, toolbars>>

\* A scroll inside an ancestor: the element moves, the ancestors stay (the
\* listener is registered on window with capture, line 609).
containerScroll(dy) ==
    /\ geometry # NULL
    /\ geometry.containers # <<>>
    /\ LET g == [geometry EXCEPT !.rect = moved(@, dy)]
       IN  /\ g \in Geometries
           /\ geometry' = g
           /\ overlayStyle' = updatePosition(g, overlayStyle)
           /\ markRects' = [i \in DOMAIN markRects |-> moved(markRects[i], dy)]
           /\ markVisibility' = visibilityAfter(g, toolbars, markRects', markVisibility)
    /\ UNCHANGED <<rvars, cvars, plan, monitor, detached, collapsed, toolbars>>

\* The window is resized (resizeListener, line 607).
windowResize(h) ==
    /\ geometry # NULL
    /\ h # geometry.innerHeight
    /\ LET g == [geometry EXCEPT !.innerHeight = h]
       IN  /\ g \in Geometries
           /\ geometry' = g
           /\ overlayStyle' = updatePosition(g, overlayStyle)
           /\ markVisibility' = visibilityAfter(g, toolbars, markRects, markVisibility)
    /\ UNCHANGED <<rvars, cvars, plan, monitor, detached, collapsed, toolbars, markRects>>

\* The overlay right after createPositionedOverlay, which ends with a call of
\* updatePosition() (line 613).
InitPosition ==
    /\ geometry \in Geometries
    /\ overlayStyle = updatePosition(geometry, createdStyle(geometry))
    /\ detached = {}
    /\ collapsed = {}
    /\ toolbars = {}
    /\ markRects = <<geometry.rect>>
    /\ markVisibility = hideOverlappingMarks(geometry.rect, toolbars, markRects)
    /\ PlanIdle
    /\ MonitorDone
    /\ CInit
    /\ kind = [e \in Elements |-> "EDITABLE"]
    /\ elText = [e \in Elements |-> TextHas]
    /\ RIdle

NextPosition ==
    \/ \E dy \in {-1, 1} : windowScroll(dy)
    \/ \E dy \in {-1, 1} : containerScroll(dy)
    \/ \E h \in {1, 2} : windowResize(h)

SpecPosition == InitPosition /\ [][NextPosition]_vars

\* The overlay of one element on a page with floating toolbars.  A toolbar
\* that is not shown has a rectangle without height.  The overlay copies the
\* element's margin and clips, not moves, the text that overflows its box, so
\* a mark's rectangle need not lie inside the element's.
MaxToolbars == 1

ToolbarRects ==
    {[top |-> v[1], bottom |-> v[2], left |-> 0, right |-> 2] :
        v \in {w \in Coords \X Coords : w[1] <= w[2]}}

MarkRects ==
    {[top |-> v[1], bottom |-> v[2], left |-> 0, right |-> 2] :
        v \in {w \in Coords \X Coords : w[1] < w[2]}}

ToolbarSets == {bars \in SUBSET ToolbarRects : Cardinality(bars) <= MaxToolbars}

\* The page moves, shows or hides its toolbars; no handler of the script runs.
toolbarsChanged(bars) ==
    /\ geometry # NULL
    /\ bars # toolbars
    /\ toolbars' = bars
    /\ UNCHANGED <<rvars, cvars, plan, monitor, geometry, overlayStyle, detached, collapsed,
                   markRects, markVisibility>>

\* The overlay right after createPositionedOverlay: hideOverlappingMarks()
\* at line 492, then updatePosition() at line 613.
InitToolbar ==
    /\ geometry \in {g \in Geometries : g.containers = <<>> /\ g.innerHeight = 2}
    /\ overlayStyle = updatePosition(geometry, createdStyle(geometry))
    /\ detached = {}
    /\ collapsed = {}
    /\ toolbars \in ToolbarSets
    /\ markRects \in [1..1 -> MarkRects]
    /\ markVisibility = hideOverlappingMarks(geometry.rect, toolbars, markRects)
    /\ PlanIdle
    /\ MonitorDone
    /\ CInit
    /\ kind = [e \in Elements |-> "EDITABLE"]
    /\ elText = [e \in Elements |-> TextHas]
    /\ RIdle

NextToolbar ==
    \/ \E dy \in {-1, 1} : windowScroll(dy)
    \/ \E h \in {1, 2} : windowResize(h)
    \/ \E bars \in ToolbarSets : toolbarsChanged(bars)

SpecToolbar == InitToolbar /\ [][NextToolbar]_vars

----------------------------------------------------------------------------
(* content.js: overlay content (createPositionedOverlay, lines 378-409)    *)

\* div.textContent = text; div.innerHTML (lines 736-738), one character at a
\* time, then the replacement of newlines by <br> (line 739).
escapeChar(c) ==
    IF c = "<" THEN "&lt;"
    ELSE IF c = ">" THEN "&gt;"
    ELSE IF c = "&" THEN "&amp;"
    ELSE IF c = "\n" THEN "<br>"
    ELSE c

escapeHtmlWithBreaks(t) == [i \in DOMAIN t |-> escapeChar(t[i])]

\* [...suggestions] without the sort.
sortedSuggestionsAsGiven(list) == list

\* content.js:383
sortedSuggestions(list) == sortByStart(list, FALSE)

\* The forEach of lines 385-404 from `sorted` on, with lastIndex, and the
\* closing span of line 407.
RECURSIVE runsFrom(_, _, _)
runsFrom(t, sorted, lastIndex) ==
    IF sorted = <<>>
    THEN <<[tag |-> "span", html |-> escapeHtmlWithBreaks(substringFrom(t, lastIndex))]>>
    ELSE LET suggestion == Head(sorted)
             highlightedText == substring(t, suggestion.start, suggestion.end)
         IN  <<[tag |-> "span",
                html |-> escapeHtmlWithBreaks(substring(t, lastIndex, suggestion.start))],
               [tag |-> "mark", html |-> escapeHtmlWithBreaks(highlightedText),
                suggestion |-> suggestion]>>
             \o runsFrom(t, Tail(sorted), suggestion.end)

\* The html that createPositionedOverlay assigns to overlay.innerHTML.
overlayRuns(t, list) == runsFrom(t, sortedSuggestions(list), 0)

createPositionedOverlay ==
    /\ overlayText # NULL
    /\ overlayHtml = NULL
    /\ overlayHtml' = [runs |-> overlayRuns(overlayText.chars, overlaySuggestions)]
    /\ UNCHANGED <<rvars, cvars, monitor, geometry, overlayStyle, detached,
                   collapsed, toolbars, markRects, markVisibility, overlayText,
                   overlaySuggestions>>

\* The element's text and the stored list as displaySuggestions hands them
\* over: any text, spans anywhere inside it, in any order.
PlanAlphabet == {"a", "<", "\n"}
MaxPlanLen == 3

PlanSpans(t) ==
    {[start |-> p[1], end |-> p[2], problematicText |-> <<>>, correction |-> <<>>] :
        p \in {q \in (0..Len(t)) \X (0..Len(t)) : q[1] <= q[2]}}

InitPlan ==
    /\ overlayText \in {[chars |-> t] : t \in SeqsUpTo(PlanAlphabet, MaxPlanLen)}
    /\ overlaySuggestions \in SeqsUpTo(PlanSpans(overlayText.chars), MaxItems)
    /\ overlayHtml = NULL
    /\ geometry = NULL
    /\ overlayStyle = NULL
    /\ detached = {}
    /\ collapsed = {}
    /\ toolbars = {}
    /\ markRects = <<>>
    /\ markVisibility = <<>>
    /\ MonitorDone
    /\ CInit
    /\ kind = [e \in Elements |-> "EDITABLE"]
    /\ elText = [e \in Elements |-> <<>>]
    /\ RIdle

NextPlan == createPositionedOverlay

SpecPlan == InitPlan /\ [][NextPlan]_vars

----------------------------------------------------------------------------
(* content.js: overlay teardown                                            *)

\* content.js:763  !inDOM || !isConnected || !isVisible
isStale(element, gone, flat) == element \in gone \/ element \in flat

\* cleanupStaleOverlays (lines 753-769) on a page where the elements of gone
\* are out of the document and those of flat have no area: for each
\* registered element that is stale, the registered overlay's cleanup and
\* activeOverlays.delete.
staleOverlaysCleaned(gone, flat) ==
    LET stale == {e \in Elements : activeOverlays[e] # NULL /\ isStale(e, gone, flat)}
    IN  /\ activeOverlays' =
              [e \in Elements |-> IF e \in stale THEN NULL ELSE activeOverlays[e]]
        /\ docOverlay' =
              IF docOverlay # NULL /\ docOverlay.element \in stale
              THEN NULL ELSE docOverlay
        /\ listeners' =
              listeners \ {[element |-> e, overlay |-> "latest"] : e \in stale}

\* The page removes a host element from the document; the MutationObserver
\* (lines 772-783) then runs cleanupStaleOverlays before any other event.
hostRemoved(element) ==
    /\ element \notin detached
    /\ detached' = detached \cup {element}
    /\ staleOverlaysCleaned(detached', collapsed)
    /\ last' = [op |-> "removed"]
    /\ UNCHANGED <<rvars, plan, monitor, geometry, overlayStyle, collapsed, toolbars, markRects,
                   markVisibility>>
    /\ UNCHANGED <<currentSettings, analysisTimeout, timers, scanTimers,
                   activeElement, tooltip, currentAnalysis, requests,
                   elementSuggestions, highlightLayer, dataSuggestions, kind,
                   elText, corrections>>

\* The page hides a host element (a style change, which the observer does
\* not watch): its rectangle has no width or height.
hostCollapsed(element) ==
    /\ element \notin collapsed
    /\ collapsed' = collapsed \cup {element}
    /\ last' = [op |-> "hidden"]
    /\ UNCHANGED <<rvars, plan, monitor, geometry, overlayStyle, detached, toolbars, markRects,
                   markVisibility>>
    /\ UNCHANGED <<currentSettings, analysisTimeout, timers, scanTimers,
                   activeElement, tooltip, currentAnalysis, requests,
                   elementSuggestions, activeOverlays, docOverlay, highlightLayer,
                   dataSuggestions, kind, elText, corrections, listeners>>

\* A scroll or resize event reaches every subscribed listener; each runs its
\* own updatePosition, whose first lines (509-513) call cleanup when the host
\* is not in the document.  cleanup removes that listener's overlay if it
\* still has a parent and unsubscribes that pair.  Where the host is in the
\* document the overlay is placed again (SpecPosition).
scrollOrResize ==
    /\ listeners # {}
    /\ listeners' = {l \in listeners : l.element \notin detached}
    /\ docOverlay' =
          IF /\ docOverlay # NULL
             /\ docOverlay.element \in detached
             /\ [element |-> docOverlay.element, overlay |-> "latest"] \in listeners
          THEN NULL ELSE docOverlay
    /\ last' = [op |-> "scroll"]
    /\ UNCHANGED <<rvars, pvars>>
    /\ UNCHANGED <<currentSettings, analysisTimeout, timers, scanTimers,
                   activeElement, tooltip, currentAnalysis, requests,
                   elementSuggestions, activeOverlays, highlightLayer,
                   dataSuggestions, kind, elText, corrections>>

\* The periodic check (setInterval, line 786), and the observer's check
\* after a change of the page's own.
cleanupStaleOverlays ==
    /\ staleOverlaysCleaned(detached, collapsed)
    /\ last' = [op |-> "stale"]
    /\ UNCHANGED <<rvars, pvars>>
    /\ UNCHANGED <<currentSettings, analysisTimeout, timers, scanTimers,
                   activeElement, tooltip, currentAnalysis, requests,
                   elementSuggestions, highlightLayer, dataSuggestions, kind,
                   elText, corrections>>

\* Two contenteditable hosts that are analysed, edited, scrolled, hidden and
\* removed.  The state after the settings were loaded and e1 was focused.
InitTeardown ==
    /\ currentSettings = [enabled |-> TRUE, apiKey |-> TRUE]
    /\ analysisTimeout = NULL
    /\ timers = {}
    /\ scanTimers = {}
    /\ activeElement = "e1"
    /\ tooltip = NULL
    /\ currentAnalysis = [text |-> TextHas, element |-> "e1"]
    /\ requests = <<[text |-> TextHas, element |-> "e1"]>>
    /\ elementSuggestions = [e \in Elements |-> NULL]
    /\ activeOverlays = [e \in Elements |-> NULL]
    /\ docOverlay = NULL
    /\ highlightLayer = [e \in Elements |-> <<>>]
    /\ dataSuggestions = [e \in Elements |-> NULL]
    /\ kind = [e \in Elements |-> "EDITABLE"]
    /\ elText = [e \in Elements |-> TextHas]
    /\ corrections = 0
    /\ listeners = {}
    /\ last = [op |-> "trigger", source |-> "focus", element |-> "e1",
               busy |-> FALSE]
    /\ RIdle
    /\ PIdle

NextTeardown ==
    \/ \E e \in Elements :
           ~isStale(e, detached, collapsed) /\ handleTextInput(e, TextHas)
    \/ \E t \in timers : debounceFires(t)
    \/ \E r \in DOMAIN requests, o \in SessionOutcomes : oracleResponds(r, o)
    \/ \E e \in Elements : hostRemoved(e)
    \/ \E e \in Elements : hostCollapsed(e)
    \/ scrollOrResize
    \/ cleanupStaleOverlays

SpecTeardown == InitTeardown /\ [][NextTeardown]_vars

----------------------------------------------------------------------------
(* content.js: monitoring setup (lines 44-59, 742-783)                     *)

\* setupTextMonitoring without its check of the attribute.
setupNeededAlways(element) == TRUE

\* content.js:45  if (element.hasAttribute('data-lang-helper-monitored')) return;
setupNeeded(element) == element \notin monitored

\* monitorPage (lines 743-747) on a page whose editable elements are
\* `found`: setupTextMonitoring for each.  addEventListener keeps one entry
\* for the same function on the same event; setTimeout makes a new timer at
\* every call.
monitorPage(found) ==
    LET fresh == {e \in found : setupNeeded(e)}
    IN  /\ monitored' = monitored \cup fresh
        /\ handlers' = [e \in Elements |->
                            IF e \in fresh THEN handlers[e] \cup Listened
                            ELSE handlers[e]]
        /\ scanCount' = [e \in Elements |->
                             IF e \in fresh THEN scanCount[e] + 1 ELSE scanCount[e]]
        /\ scanTimers' = scanTimers \cup fresh

\* The MutationObserver's callback (lines 772-778): monitorPage(), then
\* cleanupStaleOverlays().
observerRuns(present, op) ==
    /\ monitorPage(present)
    /\ staleOverlaysCleaned(Elements \ present, collapsed)
    /\ last' = [op |-> op, rescanned |-> present \cap monitored]
    /\ UNCHANGED <<rvars, plan, geometry, overlayStyle, collapsed, toolbars,
                   markRects, markVisibility>>
    /\ UNCHANGED <<currentSettings, analysisTimeout, timers, activeElement,
                   tooltip, currentAnalysis, requests, elementSuggestions,
                   highlightLayer, dataSuggestions, kind, elText, corrections>>

\* The page inserts an editable element; the observer runs.
elementAdded(element) ==
    /\ element \in detached
    /\ detached' = detached \ {element}
    /\ observerRuns(Elements \ detached', "added")

\* Some other change of the page's child lists; the observer runs.
pageMutated ==
    /\ UNCHANGED detached
    /\ observerRuns(Elements \ detached, "mutation")

\* The script has run to its end on a page that holds some of the elements;
\* the others are inserted later.
InitMonitor ==
    /\ detached \in SUBSET Elements
    /\ monitored = Elements \ detached
    /\ handlers = [e \in Elements |-> IF e \in detached THEN {} ELSE Listened]
    /\ scanCount = [e \in Elements |-> IF e \in detached THEN 0 ELSE 1]
    /\ scanTimers = Elements \ detached
    /\ currentSettings = [enabled |-> TRUE, apiKey |-> FALSE]
    /\ analysisTimeout = NULL
    /\ timers = {}
    /\ activeElement = NoElement
    /\ tooltip = NULL
    /\ currentAnalysis = NULL
    /\ requests = <<>>
    /\ elementSuggestions = [e \in Elements |-> NULL]
    /\ activeOverlays = [e \in Elements |-> NULL]
    /\ docOverlay = NULL
    /\ highlightLayer = [e \in Elements |-> <<>>]
    /\ dataSuggestions = [e \in Elements |-> NULL]
    /\ last = [op |-> "load"]
    /\ corrections = 0
    /\ listeners = {}
    /\ kind = [e \in Elements |-> IF e = "e1" THEN "EDITABLE" ELSE "TEXTAREA"]
    /\ elText \in [Elements -> Texts]
    /\ RIdle
    /\ geometry = NULL
    /\ overlayStyle = NULL
    /\ collapsed = {}
    /\ toolbars = {}
    /\ markRects = <<>>
    /\ markVisibility = <<>>
    /\ PlanIdle

NextMonitor ==
    \/ \E e \in Elements : elementAdded(e)
    \/ pageMutated
    \/ \E enabled \in BOOLEAN, apiKey \in BOOLEAN : storageChanged(enabled, apiKey)
    \/ \E e \in Elements : scanFires(e)
    \/ \E e \in Elements :
           e \notin detached /\ "focus" \in handlers[e] /\ handleFocus(e)
    \/ \E r \in DOMAIN requests, o \in SessionOutcomes : oracleResponds(r, o)

SpecMonitor == InitMonitor /\ [][NextMonitor]_vars

----------------------------------------------------------------------------
(* Properties                                                              *)

\* text[start:end] as the source takes it (String.prototype.substring):
\* offsets outside the text are clamped, and the two are ordered.
Clamp(x, n) == IF x < 0 THEN 0 ELSE IF x > n THEN n ELSE x

TextAt(text, start, end) ==
    LET a == Clamp(start, Len(text))
        b == Clamp(end, Len(text))
        lo == IF a <= b THEN a ELSE b
        hi == IF a <= b THEN b ELSE a
    IN  [i \in 1..(hi - lo) |-> text[lo + i]]

\* The 0-based indexes at which literal occurs in text.
Occurrences(text, literal) ==
    {i \in 0..(Len(text) - Len(literal)) :
        \A k \in 1..Len(literal) : text[i + k] = literal[k]}

SamePair(s, c) == s.start = c.start /\ s.end = c.end

\* C1: every span stored for a buffer satisfies currentText[start:end] ==
\* literal for the buffer's current text, in every reachable state.
C1_StoredSpansMatchCurrentText ==
    \A e \in Elements :
        elementSuggestions[e] # NULL =>
            \A i \in DOMAIN elementSuggestions[e].suggestions :
                LET s == elementSuggestions[e].suggestions[i]
                IN  TextAt(elText[e], s.start, s.end) = s.problematicText

\* C2: at most one oracle request is outstanding for a buffer; a trigger
\* (timer fire, focus, initial scan) that arrives while a request is
\* outstanding issues no request, changes no session state (in-flight marker,
\* stored spans, rendering) and starts no timer; and when the outstanding
\* request resolves, no request is issued in its place.
C2_OnePerBuffer ==
    \A e \in Elements :
        Cardinality({i \in DOMAIN requests : requests[i].element = e}) <= 1

C2_TriggerWhileBusyDropped ==
    (last'.op = "trigger" /\ last'.busy) =>
        /\ UNCHANGED <<requests, currentAnalysis, elementSuggestions, docOverlay,
                       activeOverlays, highlightLayer, dataSuggestions,
                       analysisTimeout>>
        /\ timers' \subseteq timers

C2_NothingQueued ==
    last'.op = "response" => requests' = <<>>

C2_SingleFlight ==
    /\ []C2_OnePerBuffer
    /\ [][C2_TriggerWhileBusyDropped /\ C2_NothingQueued]_vars

C2_Witness ==
    /\ last.op = "trigger"
    /\ last.source = "timer"
    /\ last.busy
    /\ Len(requests) = 1
    /\ requests[1].element = last.element
    /\ qualifies(elText[last.element])

\* C3: applyCorrection on a span that is not in the buffer's current span
\* index (or for a buffer with no index) leaves the buffer text and the
\* stored spans unchanged.
C3_AbsentSpanIsNoOp ==
    (/\ last.op = "replace"
     /\ \/ last.storedBefore = NULL
        \/ \A i \in DOMAIN last.storedBefore.suggestions :
               ~SamePair(last.storedBefore.suggestions[i], last.suggestion))
    => /\ elText[last.host] = last.textBefore
       /\ elementSuggestions[last.host] = last.storedBefore

\* C4: every span that reconciliation returns satisfies
\* text[start:end] == literal for the text it was validated against.
C4_ReturnedSpansSelectLiteral ==
    rOut # NULL =>
        \A i \in DOMAIN rOut.suggestions :
            LET s == rOut.suggestions[i]
            IN  TextAt(rText, s.start, s.end) = s.problematicText

\* C5: every span that reconciliation returns satisfies
\* 0 <= start < end <= len(text), whatever integers and literal the oracle gave.
C5_ReturnedSpansInBounds ==
    rOut # NULL =>
        \A i \in DOMAIN rOut.suggestions :
            LET s == rOut.suggestions[i]
            IN  0 <= s.start /\ s.start < s.end /\ s.end <= Len(rText)

\* C6: when text[start:end] equals the literal, reconcile returns the span
\* with start, end and every other field unchanged, even when the literal
\* also occurs earlier in the text.
C6_ExactMatchUnchanged ==
    (/\ rOut # NULL
     /\ Len(rPayload.items) = 1
     /\ TextAt(rText, rPayload.items[1].start, rPayload.items[1].end)
            = rPayload.items[1].problematicText)
    => rOut.suggestions = <<rPayload.items[1]>>

C6_Witness ==
    /\ rOut # NULL
    /\ Len(rPayload.items) = 1
    /\ LET raw == rPayload.items[1]
       IN  /\ 0 < raw.start /\ raw.start < raw.end /\ raw.end <= Len(rText)
           /\ TextAt(rText, raw.start, raw.end) = raw.problematicText
           /\ \E j \in Occurrences(rText, raw.problematicText) : j < raw.start
           /\ rOut.suggestions = <<raw>>

\* C7: when text[start:end] differs from the literal but the literal occurs
\* in the text, reconcile returns the span with start = the smallest index i
\* with text[i : i+len(literal)] == literal and end = start + len(literal).
C7_RelocatedToFirstOccurrence ==
    (/\ rOut # NULL
     /\ Len(rPayload.items) = 1
     /\ TextAt(rText, rPayload.items[1].start, rPayload.items[1].end)
            # rPayload.items[1].problematicText
     /\ Occurrences(rText, rPayload.items[1].problematicText) # {})
    => LET raw == rPayload.items[1]
           occ == Occurrences(rText, raw.problematicText)
           first == CHOOSE i \in occ : \A j \in occ : i <= j
       IN  rOut.suggestions =
               <<[raw EXCEPT !.start = first,
                             !.end = first + Len(raw.problematicText)]>>

C7_Witness ==
    /\ rOut # NULL
    /\ Len(rPayload.items) = 1
    /\ LET raw == rPayload.items[1]
       IN  /\ TextAt(rText, raw.start, raw.end) # raw.problematicText
           /\ Cardinality(Occurrences(rText, raw.problematicText)) >= 2
           /\ Len(raw.problematicText) = 2
           /\ Len(rOut.suggestions) = 1
           /\ rOut.suggestions[1].start # raw.start

\* C8: when the literal occurs in the text neither as it is nor with both
\* sides case-folded, reconcile returns null and the span is absent from the
\* suggestions sent to the content script.
C8_UnfoundRejected ==
    (/\ rOut # NULL
     /\ Len(rPayload.items) = 1
     /\ Occurrences(rText, rPayload.items[1].problematicText) = {}
     /\ Occurrences(toLowerCase(rText),
                    toLowerCase(rPayload.items[1].problematicText)) = {})
    => /\ reconcile(rText, rPayload.items[1]) = NULL
       /\ rOut.suggestions = <<>>

C8_Witness ==
    /\ rOut # NULL
    /\ Len(rPayload.items) = 1
    /\ Occurrences(toLowerCase(rText),
                   toLowerCase(rPayload.items[1].problematicText)) = {}
    /\ 0 <= rPayload.items[1].start
    /\ rPayload.items[1].start < rPayload.items[1].end
    /\ rPayload.items[1].end <= Len(rText)
    /\ rOut.suggestions = <<>>

\* C9: for the corrected span c and delta = len(replacement) - (c.end -
\* c.start), every remaining span with start >= c.end comes out with both
\* bounds shifted by delta, and every remaining span with start < c.end comes
\* out with its bounds unchanged.
C9_Rebased ==
    (/\ last.op = "replace"
     /\ last.target # NoElement
     /\ last.storedBefore # NULL)
    => LET c == last.suggestion
           delta == Len(c.correction) - (c.end - c.start)
           other(s) == ~SamePair(s, c)
           remaining == SelectSeq(last.storedBefore.suggestions, other)
           after == elementSuggestions[last.target].suggestions
       IN  /\ Len(after) = Len(remaining)
           /\ \A i \in DOMAIN remaining :
                 /\ remaining[i].start >= c.end =>
                       /\ after[i].start = remaining[i].start + delta
                       /\ after[i].end = remaining[i].end + delta
                 /\ remaining[i].start < c.end =>
                       /\ after[i].start = remaining[i].start
                       /\ after[i].end = remaining[i].end

\* "has" -> "have" at [2,5) in "I has a dog" moves "dog" from [8,11) to [9,12).
C9_Witness ==
    /\ last.op = "replace"
    /\ last.target = "e1"
    /\ last.textBefore = TextHas
    /\ last.suggestion.start = 2 /\ last.suggestion.end = 5
    /\ \E i \in DOMAIN last.storedBefore.suggestions :
           /\ last.storedBefore.suggestions[i].start = 8
           /\ last.storedBefore.suggestions[i].end = 11
    /\ Len(elementSuggestions["e1"].suggestions) = 1
    /\ elementSuggestions["e1"].suggestions[1].start = 9
    /\ elementSuggestions["e1"].suggestions[1].end = 12

\* C10: accepting a correction for span c on any monitored surface sets the
\* buffer text to currentText[0:c.start] + replacement + currentText[c.end:],
\* and the text stored with the span index is that same text.
C10_TextSubstituted ==
    last.op = "replace" =>
        LET c == last.suggestion
            expected == TextAt(last.textBefore, 0, c.start) \o c.correction
                        \o TextAt(last.textBefore, c.end, Len(last.textBefore))
        IN  /\ elText[last.host] = expected
            /\ elementSuggestions[last.host] # NULL
            /\ elementSuggestions[last.host].text = expected

\* C11: every edit made while the feature is enabled and a credential is
\* present cancels the pending debounce timer and starts a new one; at most
\* one debounce timer is pending at a time; and a debounced oracle call is
\* issued only by the timer of the latest such edit, for the text of that edit
\* (the timer fires 1.5 s after it was started; an edit in between replaces it).
C11_OneTimer == Cardinality(timers) <= 1

C11_EditRestartsTimer ==
    (last'.op = "input" /\ settingsAllow) =>
        LET timer == [text |-> elText'[last'.element], element |-> last'.element]
        IN  timers' = {timer} /\ analysisTimeout' = timer

C11_FiresAfterQuiet ==
    (last'.op = "trigger" /\ last'.source = "timer") =>
        /\ timers = {analysisTimeout}
        /\ timers' = {}
        /\ requests' # requests =>
              requests' = <<[text |-> analysisTimeout.text,
                             element |-> analysisTimeout.element]>>

C11_Debounce ==
    /\ []C11_OneTimer
    /\ [][C11_EditRestartsTimer /\ C11_FiresAfterQuiet]_vars

C11_Witness ==
    /\ last.op = "trigger"
    /\ last.source = "timer"
    /\ ~last.busy
    /\ analysisTimeout # NULL
    /\ requests = <<[text |-> analysisTimeout.text,
                     element |-> analysisTimeout.element]>>
    /\ elText[analysisTimeout.element] = analysisTimeout.text

\* C12: if a qualifying edit arrives while an oracle call is in flight and
\* no further edit follows, then when the call resolves a debounce timer for
\* the edit is pending (so that a call for the edited text is issued later).
\* Stated of the state right after the response, for the latest edit
\* of the same buffer (analysisTimeout records it) when the resolved call was
\* for an earlier text of that buffer.
C12_EditDuringFlightPending ==
    (/\ last.op = "response"
     /\ analysisTimeout # NULL
     /\ qualifies(analysisTimeout.text)
     /\ elText[analysisTimeout.element] = analysisTimeout.text
     /\ last.element = analysisTimeout.element
     /\ last.text # analysisTimeout.text)
    => analysisTimeout \in timers

\* C13: whenever an oracle call ends in an error response or a thrown
\* exception, the in-flight marker is cleared, nothing but the session changes
\* (the editing surface is untouched), and a qualifying trigger that comes
\* next issues a new oracle call.
Failed(record) == record.op = "response" /\ record.how \in {"error", "throw"}

C13_FailureClears ==
    Failed(last') =>
        /\ currentAnalysis' = NULL
        /\ requests' = <<>>
        /\ UNCHANGED <<elText, kind, activeElement, timers, analysisTimeout>>

C13_NextTriggerIssues ==
    (/\ Failed(last)
     /\ last'.op = "trigger"
     /\ settingsAllow
     /\ last'.source = "timer" => \A t \in timers \ timers' : qualifies(t.text))
    => /\ Len(requests') = 1
       /\ requests'[1].element = last'.element
       /\ currentAnalysis' = requests'[1]

C13_FailureNeverBlocks ==
    [][C13_FailureClears /\ C13_NextTriggerIssues]_vars

C13_Witness ==
    /\ last.op = "response"
    /\ last.how = "throw"
    /\ currentAnalysis = NULL
    /\ requests = <<>>
    /\ settingsAllow
    /\ timers # {}

\* C14: when an oracle call fails, the buffer's stored span set and its
\* rendered highlights are exactly what they were before the call resolved;
\* highlights of an earlier round stay.
C14_FailureLeavesSpans ==
    [][Failed(last') =>
          UNCHANGED <<elementSuggestions, highlightLayer, dataSuggestions,
                      docOverlay, activeOverlays>>]_vars

C14_Witness ==
    /\ Failed(last)
    /\ last.element = "e2"
    /\ elementSuggestions["e2"] # NULL
    /\ elementSuggestions["e2"].suggestions = <<RawHas>>
    /\ highlightLayer["e2"] = <<RawHas>>

\* C15: an oracle payload that is unparseable text, or JSON that is not a
\* list, leaves the buffer's stored span set and its rendered highlights
\* unchanged, as an oracle failure does.
MalformedReplies ==
    {[how |-> "reply", payload |-> [shape |-> sh, items |-> <<>>]] :
        sh \in {"unparseable", "notArray"}}

StoredSpans(stored) == IF stored = NULL THEN <<>> ELSE stored.suggestions

C15_MalformedLeavesSpans ==
    [][\A r \in DOMAIN requests, o \in MalformedReplies :
          oracleResponds(r, o) =>
              /\ \A e \in Elements :
                    StoredSpans(elementSuggestions'[e]) = StoredSpans(elementSuggestions[e])
              /\ UNCHANGED <<highlightLayer, docOverlay>>]_vars

\* C16: with two monitored buffers, an edit on one never cancels the other's
\* pending debounce timer, and an oracle call in flight for one never causes
\* a trigger for the other to be dropped.
C16_EditKeepsOtherTimers ==
    last'.op = "input" =>
        \A t \in timers : t.element # last'.element => t \in timers'

C16_OtherFlightDoesNotDrop ==
    (/\ last'.op = "trigger"
     /\ \A i \in DOMAIN requests : requests[i].element # last'.element
     /\ last'.source = "timer" => \A t \in timers \ timers' : qualifies(t.text))
    => \E i \in DOMAIN requests' : requests'[i].element = last'.element

C16_SessionsPerBuffer ==
    [][C16_EditKeepsOtherTimers /\ C16_OtherFlightDoesNotDrop]_vars

\* C17: an oracle call is issued only if, at the moment it is issued, the
\* text's trimmed length is at least 10, the feature is enabled and a
\* credential is present; on the debounce, focus and initial-scan paths alike,
\* also when the settings changed between an edit and its timer fire.
C17_AnalysisGate ==
    [][Len(requests') > Len(requests) =>
          /\ Len(trim(requests'[Len(requests')].text)) >= MinLength
          /\ currentSettings.enabled
          /\ currentSettings.apiKey]_vars

\* C18: focusing a field whose text is qualifying (trimmed length at least
\* 10, feature enabled, credential present) issues an oracle call for that
\* text in the same step, with no debounce timer involved, if and only if no
\* oracle call is in flight; if one is in flight the focus issues nothing.
C18_FocusTrigger ==
    [][(last'.op \in {"trigger", "gated"} /\ last'.source = "focus") =>
          LET e == last'.element
              call == [text |-> elText[e], element |-> e]
          IN  /\ UNCHANGED <<timers, analysisTimeout>>
              /\ IF settingsAllow /\ qualifies(elText[e]) /\ requests = <<>>
                 THEN requests' = <<call>> /\ currentAnalysis' = call
                 ELSE UNCHANGED <<requests, currentAnalysis>>]_vars

C18_Witness ==
    /\ last.op = "trigger"
    /\ last.source = "focus"
    /\ ~last.busy
    /\ requests = <<[text |-> elText[last.element], element |-> last.element]>>
    /\ timers # {}

\* C19: after an oracle call resolves with an empty (or all-rejected)
\* suggestion list for a buffer, no highlight and no overlay mark is rendered
\* for that buffer, also when highlights of an earlier round were on screen.
C19_EmptyRoundRendersNothing ==
    (/\ last.op = "response"
     /\ last.how = "reply"
     /\ elementSuggestions[last.element] # NULL
     /\ elementSuggestions[last.element].suggestions = <<>>)
    => /\ highlightLayer[last.element] = <<>>
       /\ docOverlay # NULL => \/ docOverlay.element # last.element
                               \/ docOverlay.marks = <<>>

\* C20: on every position update, if the host element's box has an empty
\* intersection with the common region of all overflow-clipping ancestors and
\* the viewport, the overlay is hidden; the overlay is never shown with a clip
\* whose insets leave no visible area.
RegionEmpty(g) ==
    LET top == SetMax({g.rect.top, 0}
                      \cup {g.containers[i].top : i \in DOMAIN g.containers})
        bottom == SetMin({g.rect.bottom, g.innerHeight}
                         \cup {g.containers[i].bottom : i \in DOMAIN g.containers})
        left == SetMax({g.rect.left, 0}
                       \cup {g.containers[i].left : i \in DOMAIN g.containers})
        right == SetMin({g.rect.right, g.innerWidth}
                        \cup {g.containers[i].right : i \in DOMAIN g.containers})
    IN  top >= bottom \/ left >= right

C20_OverlayHiddenWhenNothingVisible ==
    overlayStyle # NULL =>
        /\ RegionEmpty(geometry) => overlayStyle.display = "none"
        /\ overlayStyle.display = "block" =>
              /\ overlayStyle.clip.top + overlayStyle.clip.bottom
                     < overlayStyle.box.bottom - overlayStyle.box.top
              /\ overlayStyle.clip.left + overlayStyle.clip.right
                     < overlayStyle.box.right - overlayStyle.box.left

\* C24: after a correction of span c the stored span list holds no span
\* whose (start, end) pair is c's, and holds every other previously stored
\* span exactly once, in the same relative order.
Applied == last.op = "replace" /\ last.target # NoElement /\ last.storedBefore # NULL

Unplaced(s) == [problematicText |-> s.problematicText, correction |-> s.correction]

Valid(text, s) ==
    /\ 0 <= s.start /\ s.start < s.end /\ s.end <= Len(text)
    /\ \A k \in 1..(s.end - s.start) : text[s.start + k] = s.problematicText[k]
    /\ Len(s.problematicText) = s.end - s.start

C27_CorrectionKeepsValidity ==
    (/\ Applied
     /\ \A i \in DOMAIN last.storedBefore.suggestions :
           LET s == last.storedBefore.suggestions[i]
           IN  /\ Valid(last.textBefore, s)
               /\ \/ SamePair(s, last.suggestion)
                  \/ s.end <= last.suggestion.start
                  \/ s.start >= last.suggestion.end)
    => \A k \in DOMAIN elementSuggestions[last.target].suggestions :
           Valid(elText[last.target], elementSuggestions[last.target].suggestions[k])

C27_Witness ==
    /\ Applied
    /\ last.textBefore = TextHas
    /\ last.suggestion.start = 0 /\ last.suggestion.end = 2
    /\ Len(last.storedBefore.suggestions) = 2
    /\ \E i \in DOMAIN last.storedBefore.suggestions :
           /\ last.storedBefore.suggestions[i].start = 2
           /\ last.storedBefore.suggestions[i].end = 5
    /\ Len(elementSuggestions[last.target].suggestions) = 1
    /\ elementSuggestions[last.target].suggestions[1].start = 4
    /\ elementSuggestions[last.target].suggestions[1].end = 7
    /\ Valid(elText[last.target], elementSuggestions[last.target].suggestions[1])

\* C28: after an accepted correction the marks rendered for the buffer are
\* exactly the rebased span set; the corrected span is no longer rendered,
\* also when it was the buffer's last remaining span.
Range(seq) == {seq[i] : i \in DOMAIN seq}

RenderedMarks(e) ==
    Range(highlightLayer[e])
    \cup (IF docOverlay # NULL /\ docOverlay.element = e
          THEN Range(docOverlay.marks) ELSE {})

C28_MarksTrackIndex ==
    Applied =>
        RenderedMarks(last.target) = Range(elementSuggestions[last.target].suggestions)

\* C30: on the textarea/input highlight path, for a suggestion list in any
\* order, hovering the highlight drawn over span s shows the suggestion
\* whose (start, end) is s.
C30_HoverShowsItsSuggestion ==
    [][\A e \in Elements, i \in 1..MaxItems :
          handleHighlightHover(e, i) =>
              SamePair(tooltip'.suggestion, highlightLayer[e][i])]_vars

\* C23: a buffer's overlay leaves the document only through a new analysis
\* result for that buffer or an accepted correction on that buffer (or the
\* viewport watcher, which takes no step here); a keystroke or a result for
\* another buffer never removes it.
C23_OnlyPermittedDestroyers ==
    [][(docOverlay # NULL /\ docOverlay' # docOverlay) =>
          \/ last'.op = "response" /\ last'.element = docOverlay.element
          \/ last'.op = "replace" /\ last'.target = docOverlay.element]_vars

\* The overlay made last for element e is the node in the document.
Attached(e) == docOverlay # NULL /\ docOverlay.element = e

\* C29: in every reachable state each subscribed scroll/resize listener pair
\* belongs to an overlay that is still in the document, and every overlay
\* recorded in activeOverlays is in the document; a replaced overlay leaves
\* no listener subscribed.
C29_NoListenerLeak ==
    /\ \A l \in listeners : l.overlay = "latest" /\ Attached(l.element)
    /\ \A e \in Elements : activeOverlays[e] # NULL => Attached(e)

\* Nothing of element e's overlays is left: no overlay node in the document,
\* no scroll or resize listener, no registry entry.
TornDown(e) ==
    /\ ~Attached(e)
    /\ \A l \in listeners : l.element # e
    /\ activeOverlays[e] = NULL

\* C22: once a host element is detached or has zero size, the next scroll,
\* resize, DOM-mutation or periodic check removes its overlay from the
\* document, unsubscribes every scroll and resize listener registered for
\* that element's overlays, and drops the element from activeOverlays.
C22_TornDownByNextCheck ==
    [][last'.op \in {"scroll", "stale", "removed"} =>
          \A e \in Elements : isStale(e, detached', collapsed') => TornDown(e)']_vars

\* Two rectangles share an area.
Intersects(a, b) ==
    /\ Max(a.left, b.left) < Min(a.right, b.right)
    /\ Max(a.top, b.top) < Min(a.bottom, b.bottom)

\* C21: after every toolbar pass (a scroll or resize that leaves the overlay
\* shown) a mark is hidden if and only if its rectangle intersects the
\* rectangle of some toolbar, whatever clip the overlay got.
C21_HiddenIffUnderToolbar ==
    [][(geometry' # geometry /\ overlayStyle'.display = "block") =>
          \A i \in DOMAIN markRects' :
              markVisibility'[i] = "hidden" <=>
                  \E t \in toolbars' : Intersects(markRects'[i], t)]_vars

\* What is left of a list when each item is reconciled on its own and the
\* rejected and the malformed ones are dropped.
EachOnItsOwn(text, items) ==
    SelectSeq([i \in DOMAIN items |->
                  IF callbackThrows(text, items[i]) THEN NULL
                  ELSE reconcile(text, items[i])],
              notNull)

\* C26: the result list is the input list with the rejected items removed,
\* in the original order; what happens to one item does not depend on any
\* other item of the list, a malformed one included.
C26_ItemsIndependent ==
    rOut # NULL => rOut = [suggestions |-> EachOnItsOwn(rText, rPayload.items)]

\* What the browser's parser makes of one escaped character.
Parsed(token) ==
    IF token = "&lt;" THEN "<"
    ELSE IF token = "&gt;" THEN ">"
    ELSE IF token = "&amp;" THEN "&"
    ELSE IF token = "<br>" THEN "\n"
    ELSE token

RunText(run) == [i \in DOMAIN run.html |-> Parsed(run.html[i])]

RECURSIVE Concat(_)
Concat(runs) == IF runs = <<>> THEN <<>> ELSE RunText(Head(runs)) \o Concat(Tail(runs))

\* 0 <= start < end <= len(text) for every span, and no two spans overlap.
InBoundsDisjoint(t, list) ==
    /\ \A i \in DOMAIN list :
          0 <= list[i].start /\ list[i].start < list[i].end /\ list[i].end <= Len(t)
    /\ \A i, j \in DOMAIN list :
          i # j => list[i].end <= list[j].start \/ list[j].end <= list[i].start

\* C25: for every text and every list of in-bounds, pairwise non-overlapping
\* spans in any order, the overlay's runs are span, mark, span, ..., span;
\* the marks are the given spans by ascending start; each mark holds
\* text[s.start:s.end]; and all runs together give the text.
C25_OverlayPartition ==
    (overlayHtml # NULL /\ InBoundsDisjoint(overlayText.chars, overlaySuggestions)) =>
        LET runs == overlayHtml.runs
            n == Len(overlaySuggestions)
        IN  /\ Len(runs) = 2 * n + 1
            /\ \A i \in DOMAIN runs :
                  runs[i].tag = IF i % 2 = 1 THEN "span" ELSE "mark"
            /\ {runs[2 * k].suggestion : k \in 1..n} = Range(overlaySuggestions)
            /\ \A k \in 1..(n - 1) :
                  runs[2 * k].suggestion.start < runs[2 * k + 2].suggestion.start
            /\ \A k \in 1..n :
                  RunText(runs[2 * k]) =
                      TextAt(overlayText.chars, runs[2 * k].suggestion.start,
                             runs[2 * k].suggestion.end)
            /\ Concat(runs) = overlayText.chars

C25_Witness ==
    /\ overlayHtml # NULL
    /\ InBoundsDisjoint(overlayText.chars, overlaySuggestions)
    /\ Len(overlaySuggestions) = 2
    /\ overlaySuggestions[1].start > overlaySuggestions[2].start
    /\ overlayText.chars = <<"<", "\n", "a">>
    /\ Len(overlayHtml.runs) = 5

\* C31: however many times the page scan runs (at load and after every DOM
\* mutation), each editable element of the page has its input, focus and
\* blur handlers and its delayed initial analysis registered exactly once,
\* and an element not yet on the page has none.
C31_SetupOnce ==
    /\ Elements \ detached \subseteq monitored
    /\ \A e \in Elements :
          IF e \in monitored
          THEN handlers[e] = Listened /\ scanCount[e] = 1
          ELSE handlers[e] = {} /\ scanCount[e] = 0

C31_Witness ==
    /\ last.op = "mutation"
    /\ last.rescanned = Elements
    /\ scanTimers = {}
    /\ \A e \in Elements : scanCount[e] = 1

====
